---------------------------- MODULE Spec2Model ----------------------------
(***************************************************************************)
(* Model of the numeric core of FINBOT (src/PFCB): the loan amortization   *)
(* schedule, the mortgage payment and its yearly breakdown, the            *)
(* compound-interest projection, the portfolio recommendation and the      *)
(* budget tracker, run one request at a time and, for the tracker and the  *)
(* advisor, by callers that run at the same time.                          *)
(*                                                                         *)
(* Numbers.  The program computes with Python floats.  Here every number   *)
(* is an integer count of a fixed quantum and every arithmetic operation   *)
(* that is not exact rounds its result to the nearest quantum (ties to     *)
(* even), one rounding per operation, as the float operations do:          *)
(*   - money is held in cents, the resolution at which the schedule        *)
(*     records it ('.2f'); the 20-year scenario is held in units of ten    *)
(*     dollars (the projection is linear in the amounts);                  *)
(*   - dimensionless factors (monthly rate, (1+r)**n, annuity factors)     *)
(*     are held in units of 1/RateScale.                                   *)
(* Annual rates are whole percents, so the monthly rate rate/100/12 is     *)
(* exact in units of 1/RateScale.                                          *)
(***************************************************************************)
EXTENDS Integers, Sequences, FiniteSets

(***************************************************************************)
(* Bounds of the model.                                                    *)
(***************************************************************************)
Precision == 10        \* factor quanta per 1/1200
MaxLoanTerm == 2       \* loan terms 1..MaxLoanTerm years
MaxYears == 3          \* investment periods 1..MaxYears years
MaxExpenses == 3       \* expenses in the ledger

(***************************************************************************)
(* Program constants.                                                      *)
(***************************************************************************)
PercentDivisor == 100
MonthsPerYear == 12
MinAge == 18
MaxAge == 100
MinStocks == 20
MaxStocks == 80
StockReturn == 850     \* 8.5 %, in hundredths of a percent
BondReturn == 400      \* 4.0 %
CashReturn == 200      \* 2.0 %
AssumedPeriodDays == 30
TopCategories == 5

RateScale == PercentDivisor * MonthsPerYear * Precision

(***************************************************************************)
(* Inputs the widgets accept, sampled.  Money in cents, rates in percent.  *)
(***************************************************************************)
LoanAmounts == {0, 1000, 2500, 4000}
LoanRates == {0, 6, 12, 24}
LoanTerms == 1..MaxLoanTerm
HomePrices == {0, 2000, 3000}
DownPayments == {0, 2000, 2500}
MortgageRates == {0, 6}
MortgageTerms == {15, 20, 30}
Principals == {0, 1000, 10000}
Contributions == {0, 50, 500}
GrowthRates == {0, 6, 12}
GrowthYears == 1..MaxYears
RiskProfiles == {"conservative", "moderate", "aggressive"}
Ages == MinAge..MaxAge

(***************************************************************************)
(* Rounded arithmetic.                                                     *)
(***************************************************************************)
\* a / b for b > 0, rounded to the nearest integer, ties to even
RoundDiv(a, b) ==
    LET q == a \div b
        rem == a - q * b
    IN  IF 2 * rem > b THEN q + 1
        ELSE IF 2 * rem = b /\ q % 2 = 1 THEN q + 1
        ELSE q

\* product of two factors
FMul(a, b) == RoundDiv(a * b, RateScale)
\* quotient of two factors
FDiv(a, b) == RoundDiv(a * RateScale, b)
\* money times a factor
MMul(m, f) == RoundDiv(m * f, RateScale)
\* money divided by a factor
MDiv(m, f) == RoundDiv(m * RateScale, f)

\* annual_rate / 100 / 12
MonthlyRate(annual_rate) ==
    RoundDiv(RoundDiv(annual_rate * RateScale, PercentDivisor), MonthsPerYear)

\* x ** n for a factor x and n >= 0, by repeated squaring
RECURSIVE Pow(_, _)
Pow(x, n) ==
    IF n = 0 THEN RateScale
    ELSE LET half == Pow(x, n \div 2)
             square == FMul(half, half)
         IN  IF n % 2 = 1 THEN FMul(square, x) ELSE square

\* (1 + monthly_rate) ** n
Growth(monthly_rate, n) == Pow(RateScale + monthly_rate, n)

(***************************************************************************)
(* Loan payment (loan_calculator, mortgage_calculator).                    *)
(***************************************************************************)
\* loan_amount * (r * (1+r)**N) / ((1+r)**N - 1), or loan_amount / N at r = 0
MonthlyPayment(loan_amount, monthly_rate, total_payments) ==
    IF monthly_rate > 0
    THEN MDiv(MMul(loan_amount, FMul(monthly_rate, Growth(monthly_rate, total_payments))),
              Growth(monthly_rate, total_payments) - RateScale)
    ELSE RoundDiv(loan_amount, total_payments)


(***************************************************************************)
(* State.                                                                  *)
(***************************************************************************)
VARIABLES
    pc,                   \* where the session is
    error,                \* exception that ended the current handler, or "none"
    loan_amount, interest_rate, loan_term, monthly_payment,
    balance, month, schedule_data,
    principal_payments, interest_payments, remaining_balance,
    principal, monthly_contribution, annual_rate, years,
    year, years_data, principal_values, contribution_values, total_values,
    total_future_value, total_contributions, total_interest, roi,
    risk_tolerance, age, base_allocation, expected_return,
    risk_table,           \* self.risk_profiles of the advisor of this run
    has_budget_data, budget_data, summary, analysis,
    calls                 \* the calls of concurrent callers, by caller

loanVars == <<loan_amount, interest_rate, loan_term, monthly_payment,
              balance, month, schedule_data>>
breakdownVars == <<principal_payments, interest_payments, remaining_balance>>
growthVars == <<principal, monthly_contribution, annual_rate, years,
                year, years_data, principal_values, contribution_values, total_values>>
summaryVars == <<total_future_value, total_contributions, total_interest, roi>>
adviceVars == <<risk_tolerance, age, base_allocation, expected_return, risk_table>>
budgetVars == <<has_budget_data, budget_data, summary, analysis, calls>>
vars == <<pc, error, loanVars, breakdownVars, growthVars, summaryVars, adviceVars, budgetVars>>

NoAllocation == [stocks |-> 0, bonds |-> 0, cash |-> 0]

\* the table InvestmentAdvisor.__init__ builds
risk_profiles ==
    [conservative |-> [stocks |-> 30, bonds |-> 60, cash |-> 10],
     moderate     |-> [stocks |-> 50, bonds |-> 40, cash |-> 10],
     aggressive   |-> [stocks |-> 70, bonds |-> 20, cash |-> 10]]

\* a mapping with no keys
NoCategories == [c \in {} |-> 0]

\* nothing returned yet
NoSummary == [total |-> 0, categories |-> NoCategories, count |-> 0]
NoAnalysis == [total_spent |-> 0, rows |-> <<>>, avg_daily |-> 0, highest |-> 0,
               transactions |-> 0]

\* the callers that use one tracker and one advisor at the same time
Threads == {"first", "second", "third"}

\* a caller that has not called yet
NoCall == [op |-> "none", at |-> "ready", amount |-> 0, category |-> "",
           risk_tolerance |-> "moderate", age |-> 0, allocation |-> NoAllocation,
           summary |-> NoSummary, analysis |-> NoAnalysis, error |-> "none"]

Init ==
    /\ pc = "idle"
    /\ error = "none"
    /\ loan_amount = 0 /\ interest_rate = 0 /\ loan_term = 0 /\ monthly_payment = 0
    /\ balance = 0 /\ month = 0 /\ schedule_data = <<>>
    /\ principal_payments = <<>> /\ interest_payments = <<>> /\ remaining_balance = <<>>
    /\ principal = 0 /\ monthly_contribution = 0 /\ annual_rate = 0 /\ years = 0
    /\ year = 0 /\ years_data = <<>> /\ principal_values = <<>>
    /\ contribution_values = <<>> /\ total_values = <<>>
    /\ total_future_value = 0 /\ total_contributions = 0 /\ total_interest = 0 /\ roi = 0
    /\ risk_tolerance = "moderate" /\ age = 0 /\ base_allocation = NoAllocation
    /\ expected_return = 0
    /\ risk_table = risk_profiles
    /\ has_budget_data \in BOOLEAN /\ budget_data = <<>>
    /\ summary = NoSummary /\ analysis = NoAnalysis
    /\ calls = [t \in Threads |-> NoCall]

(***************************************************************************)
(* loan_calculator: the widgets deliver loan_amount >= 0.0, a rate in      *)
(* [0, 50] and a term in 1..30; the payment is computed on every run.      *)
(***************************************************************************)
LoanCalculator ==
    /\ pc = "idle"
    /\ \E la \in LoanAmounts, ir \in LoanRates, lt \in LoanTerms :
         /\ loan_amount' = la
         /\ interest_rate' = ir
         /\ loan_term' = lt
         /\ monthly_payment' = MonthlyPayment(la, MonthlyRate(ir), lt * MonthsPerYear)
    /\ pc' = "loan_shown"
    /\ UNCHANGED <<error, balance, month, schedule_data, breakdownVars, growthVars, adviceVars, summaryVars, budgetVars>>

(***************************************************************************)
(* mortgage_calculator: loan_amount = home_price - down_payment, then the  *)
(* same payment formula; the down-payment percentage divides by            *)
(* home_price.                                                             *)
(***************************************************************************)
MortgageCalculator ==
    /\ pc = "idle"
    /\ \E home_price \in HomePrices, down_payment \in DownPayments,
          ir \in MortgageRates, lt \in MortgageTerms :
         /\ loan_amount' = home_price - down_payment
         /\ interest_rate' = ir
         /\ loan_term' = lt
         /\ monthly_payment' =
               MonthlyPayment(home_price - down_payment, MonthlyRate(ir), lt * MonthsPerYear)
         /\ IF home_price = 0
            THEN error' = "ZeroDivisionError" /\ pc' = "crashed"
            ELSE error' = "none" /\ pc' = "mortgage_shown"
    /\ UNCHANGED <<balance, month, schedule_data, breakdownVars, growthVars, adviceVars, summaryVars, budgetVars>>

(***************************************************************************)
(* _create_amortization_schedule, one loop iteration per step.             *)
(***************************************************************************)
\* "Show Amortization Schedule": schedule_data = [], balance = loan_amount
CreateAmortizationSchedule ==
    /\ pc = "loan_shown"
    /\ schedule_data' = <<>>
    /\ balance' = loan_amount
    /\ month' = 1
    /\ pc' = IF 1 <= loan_term * MonthsPerYear THEN "amortizing" ELSE "amortized"
    /\ UNCHANGED <<error, loan_amount, interest_rate, loan_term, monthly_payment,
                   breakdownVars, growthVars, adviceVars, summaryVars, budgetVars>>

\* interest_payment = balance * monthly_rate
InterestPayment(bal, monthly_rate) == MMul(bal, monthly_rate)

\* PrincipalPayment without the clamp to the balance
PrincipalPaymentUnclamped(payment, interest, bal) == payment - interest

\* principal_payment = monthly_payment - interest_payment, clamped to the balance
PrincipalPayment(payment, interest, bal) ==
    IF payment - interest > bal THEN bal ELSE payment - interest

\* PaymentAfterClamp that keeps the regular payment
PaymentNotRecomputed(payment, interest, bal) == payment

\* monthly_payment after the clamp: principal_payment + interest_payment
PaymentAfterClamp(payment, interest, bal) ==
    IF payment - interest > bal THEN bal + interest ELSE payment

\* NextMonth stepping over every other period
NextMonthSkipping(m) == m + 2

\* the next value of range(1, total_payments + 1)
NextMonth(m) == m + 1

\* the loop leaves after the record when balance <= 0 or the range is exhausted
LoopEnds(bal, m, total_payments) == bal <= 0 \/ m >= total_payments

AmortizationStep ==
    /\ pc = "amortizing"
    /\ LET monthly_rate == MonthlyRate(interest_rate)
           interest_payment == InterestPayment(balance, monthly_rate)
           principal_payment == PrincipalPayment(monthly_payment, interest_payment, balance)
           payment == PaymentAfterClamp(monthly_payment, interest_payment, balance)
           newBalance == balance - principal_payment
       IN  /\ monthly_payment' = payment
           /\ balance' = newBalance
           /\ schedule_data' = Append(schedule_data,
                  [Month |-> month, Payment |-> payment, Principal |-> principal_payment,
                   Interest |-> interest_payment, Balance |-> newBalance])
           /\ IF LoopEnds(newBalance, month, loan_term * MonthsPerYear)
              THEN pc' = "amortized" /\ month' = month
              ELSE pc' = "amortizing" /\ month' = NextMonth(month)
    /\ UNCHANGED <<error, loan_amount, interest_rate, loan_term, breakdownVars, growthVars, adviceVars, summaryVars, budgetVars>>

(***************************************************************************)
(* _create_mortgage_breakdown_chart: one outer (year) iteration per step,  *)
(* each folding its twelve months.  The payment is recomputed from the     *)
(* arguments; it equals the one mortgage_calculator computed.              *)
(***************************************************************************)
\* the inner loop: months_left iterations from balance bal, accumulating
\* year_principal and year_interest
RECURSIVE YearOfPayments(_, _, _, _, _, _)
YearOfPayments(bal, year_principal, year_interest, months_left, payment, monthly_rate) ==
    IF months_left = 0
    THEN [balance |-> bal, year_principal |-> year_principal, year_interest |-> year_interest]
    ELSE IF bal > 0
         THEN LET interest_payment == MMul(bal, monthly_rate)
                  principal_payment == IF payment - interest_payment > bal THEN bal
                                       ELSE payment - interest_payment
              IN  YearOfPayments(bal - principal_payment,
                                 year_principal + principal_payment,
                                 year_interest + interest_payment,
                                 months_left - 1, payment, monthly_rate)
         ELSE YearOfPayments(bal, year_principal, year_interest,
                             months_left - 1, payment, monthly_rate)

\* "Show Payment Breakdown"
CreateMortgageBreakdownChart ==
    /\ pc = "mortgage_shown"
    /\ balance' = loan_amount
    /\ year' = 0
    /\ years_data' = <<>>
    /\ principal_payments' = <<>>
    /\ interest_payments' = <<>>
    /\ remaining_balance' = <<>>
    /\ pc' = "breaking_down"
    /\ UNCHANGED <<error, loan_amount, interest_rate, loan_term, monthly_payment,
                   month, schedule_data, principal, monthly_contribution, annual_rate,
                   years, principal_values, contribution_values, total_values, adviceVars, summaryVars, budgetVars>>

BreakdownStep ==
    /\ pc = "breaking_down"
    /\ LET after == YearOfPayments(balance, 0, 0, MonthsPerYear, monthly_payment,
                                   MonthlyRate(interest_rate))
       IN  /\ balance' = after.balance
           /\ years_data' = Append(years_data, year)
           /\ principal_payments' = Append(principal_payments, after.year_principal)
           /\ interest_payments' = Append(interest_payments, after.year_interest)
           /\ remaining_balance' = Append(remaining_balance, after.balance)
    /\ IF year >= loan_term
       THEN pc' = "broken_down" /\ year' = year
       ELSE pc' = "breaking_down" /\ year' = year + 1
    /\ UNCHANGED <<error, loan_amount, interest_rate, loan_term, monthly_payment,
                   month, schedule_data, principal, monthly_contribution, annual_rate,
                   years, principal_values, contribution_values, total_values, adviceVars, summaryVars, budgetVars>>

(***************************************************************************)
(* compound_interest_calculator: the widgets deliver principal >= 0.0,     *)
(* monthly_contribution >= 0.0, a rate in [0, 50] and 1..50 years.  The    *)
(* return-on-investment metric divides by total_contributions.             *)
(***************************************************************************)
\* TotalContributions counting one contribution per year
TotalContributionsYearly(p, c, total_months) == p + c * (total_months \div MonthsPerYear)

\* total_contributions = principal + monthly_contribution * total_months
TotalContributions(p, c, total_months) == p + c * total_months

\* fv_principal = principal * (1 + monthly_rate) ** total_months
FvPrincipal(p, monthly_rate, total_months) == MMul(p, Growth(monthly_rate, total_months))

\* FvAnnuity for payments at the start of each month (annuity due)
FvAnnuityDue(c, monthly_rate, total_months) ==
    IF monthly_rate > 0
    THEN MMul(MMul(c, FDiv(Growth(monthly_rate, total_months) - RateScale, monthly_rate)),
              RateScale + monthly_rate)
    ELSE c * total_months

\* fv_annuity = monthly_contribution * (((1 + monthly_rate) ** total_months - 1) / monthly_rate),
\* or monthly_contribution * total_months when monthly_rate is not > 0
FvAnnuity(c, monthly_rate, total_months) ==
    IF monthly_rate > 0
    THEN MMul(c, FDiv(Growth(monthly_rate, total_months) - RateScale, monthly_rate))
    ELSE c * total_months

\* total_interest / total_contributions * 100, a percentage in units of 1/RateScale
ReturnOnInvestment(interest, contributions) == FDiv(interest, contributions) * 100

\* the principal, contribution, rate and years of the 20-year scenario, the
\* amounts in units of ten dollars
ScenarioGrowth == <<1000, 50, 7, 20>>

GrowthInputs ==
    (Principals \X Contributions \X GrowthRates \X GrowthYears) \cup {ScenarioGrowth}

CompoundInterestCalculator ==
    /\ pc = "idle"
    /\ \E in \in GrowthInputs :
         LET p == in[1]
             c == in[2]
             ar == in[3]
             y == in[4]
             monthly_rate == MonthlyRate(ar)
             total_months == y * MonthsPerYear
             future == FvPrincipal(p, monthly_rate, total_months)
                          + FvAnnuity(c, monthly_rate, total_months)
             contributed == TotalContributions(p, c, total_months)
         IN  /\ principal' = p
             /\ monthly_contribution' = c
             /\ annual_rate' = ar
             /\ years' = y
             /\ total_future_value' = future
             /\ total_contributions' = contributed
             /\ total_interest' = future - contributed
             /\ IF contributed = 0
                THEN /\ error' = "ZeroDivisionError"
                     /\ roi' = 0
                     /\ pc' = "crashed"
                ELSE /\ error' = "none"
                     /\ roi' = ReturnOnInvestment(future - contributed, contributed)
                     /\ pc' = "growth_shown"
    /\ UNCHANGED <<loanVars, breakdownVars, year, years_data, principal_values, contribution_values,
                   total_values, adviceVars, budgetVars>>

(***************************************************************************)
(* _create_compound_interest_chart, one loop iteration per step.           *)
(***************************************************************************)
\* LastYear for range(years) in place of range(years + 1)
LastYearShort(y) == y - 1

\* last value of range(years + 1)
LastYear(y) == y

\* PrincipalVal with * in place of **
PrincipalValLinear(p, monthly_rate, months) == MMul(p, RateScale + monthly_rate) * months

\* principal * (1 + monthly_rate) ** months
PrincipalVal(p, monthly_rate, months) == MMul(p, Growth(monthly_rate, months))

\* ContributionVal with the numerator 1 - (1 + monthly_rate) ** months
ContributionValSwapped(c, monthly_rate, months) ==
    IF monthly_rate > 0
    THEN MMul(c, FDiv(RateScale - Growth(monthly_rate, months), monthly_rate))
    ELSE c * months

\* monthly_contribution * (((1 + monthly_rate) ** months - 1) / monthly_rate),
\* or monthly_contribution * months when monthly_rate is not > 0
ContributionVal(c, monthly_rate, months) ==
    IF monthly_rate > 0
    THEN MMul(c, FDiv(Growth(monthly_rate, months) - RateScale, monthly_rate))
    ELSE c * months

\* TotalVal that leaves the contributions out
TotalValPrincipalOnly(principal_val, contribution_val) == principal_val

\* total_val = principal_val + contribution_val
TotalVal(principal_val, contribution_val) == principal_val + contribution_val

\* "Generate Projection Chart": the four lists start empty
CreateCompoundInterestChart ==
    /\ pc = "growth_shown"
    /\ year' = 0
    /\ years_data' = <<>>
    /\ principal_values' = <<>>
    /\ contribution_values' = <<>>
    /\ total_values' = <<>>
    /\ pc' = IF 0 <= LastYear(years) THEN "charting" ELSE "charted"
    /\ UNCHANGED <<error, loanVars, breakdownVars, principal, monthly_contribution, annual_rate, years,
                   adviceVars, summaryVars, budgetVars>>

ChartStep ==
    /\ pc = "charting"
    /\ LET monthly_rate == MonthlyRate(annual_rate)
           months == year * MonthsPerYear
           principal_val == IF months = 0 THEN principal
                            ELSE PrincipalVal(principal, monthly_rate, months)
           contribution_val == IF months = 0 THEN 0
                               ELSE ContributionVal(monthly_contribution, monthly_rate, months)
           total_val == IF months = 0 THEN principal
                        ELSE TotalVal(principal_val, contribution_val)
       IN  /\ years_data' = Append(years_data, year)
           /\ principal_values' = Append(principal_values, principal_val)
           /\ contribution_values' = Append(contribution_values, contribution_val)
           /\ total_values' = Append(total_values, total_val)
    /\ IF year >= LastYear(years)
       THEN pc' = "charted" /\ year' = year
       ELSE pc' = "charting" /\ year' = year + 1
    /\ UNCHANGED <<error, loanVars, breakdownVars, principal, monthly_contribution, annual_rate, years,
                   adviceVars, summaryVars, budgetVars>>

(***************************************************************************)
(* _get_portfolio_recommendation: the profile form delivers an age in      *)
(* 18..100 and one of the three risk profiles.                             *)
(***************************************************************************)
Max(a, b) == IF a >= b THEN a ELSE b
Min(a, b) == IF a <= b THEN a ELSE b

\* StockAdjustment with the bracket ends on the other side
StockAdjustmentInclusive(a) == IF a <= 30 THEN 10 ELSE IF a <= 50 THEN 0 ELSE -10

\* age-based adjustment
StockAdjustment(a) == IF a < 30 THEN 10 ELSE IF a < 50 THEN 0 ELSE -10

\* AdjustedStocks with max and min exchanged
AdjustedStocksSwapped(stocks, stock_adjustment) ==
    Min(MinStocks, Max(MaxStocks, stocks + stock_adjustment))

\* max(20, min(80, stocks + stock_adjustment))
AdjustedStocks(stocks, stock_adjustment) ==
    Max(MinStocks, Min(MaxStocks, stocks + stock_adjustment))

\* RemainingBonds that does not set the cash share aside
RemainingBondsNoCash(stocks, cash) == 100 - stocks

\* 100 - stocks - cash
RemainingBonds(stocks, cash) == 100 - stocks - cash

\* PortfolioAllocation that keeps the bonds share and recomputes cash
PortfolioAllocationFixedBonds(rt, a) ==
    LET base == risk_table[rt]
        stocks == AdjustedStocks(base.stocks, StockAdjustment(a))
    IN  [stocks |-> stocks, bonds |-> base.bonds, cash |-> 100 - stocks - base.bonds]

\* the allocation after lines 89-91
PortfolioAllocation(rt, a) ==
    LET base == risk_table[rt]
        stocks == AdjustedStocks(base.stocks, StockAdjustment(a))
    IN  [stocks |-> stocks, bonds |-> RemainingBonds(stocks, base.cash), cash |-> base.cash]

\* TableAfter when the allocation is the table's own entry, not a copy
TableAfterAliased(table, rt, allocation) == [table EXCEPT ![rt] = allocation]

\* the table after the assignments to base_allocation, which is a copy
\* (risk_profiles[risk_tolerance].copy()) of the table's entry
TableAfter(table, rt, allocation) == table

\* _calculate_expected_return without the division by 100
ExpectedReturnUndivided(allocation) ==
    allocation.stocks * StockReturn + allocation.bonds * BondReturn
        + allocation.cash * CashReturn

\* _calculate_expected_return: the weighted sum of the asset returns / 100,
\* in hundredths of a percent
ExpectedReturn(allocation) ==
    RoundDiv(allocation.stocks * StockReturn + allocation.bonds * BondReturn
                 + allocation.cash * CashReturn, 100)

GetPortfolioRecommendation ==
    /\ pc = "idle"
    /\ \E rt \in RiskProfiles, a \in Ages :
         /\ risk_tolerance' = rt
         /\ age' = a
         /\ base_allocation' = PortfolioAllocation(rt, a)
         /\ expected_return' = ExpectedReturn(PortfolioAllocation(rt, a))
         /\ risk_table' = TableAfter(risk_table, rt, PortfolioAllocation(rt, a))
    /\ pc' = "recommended"
    /\ UNCHANGED <<error, loanVars, breakdownVars, growthVars, summaryVars, budgetVars>>

(***************************************************************************)
(* BudgetTracker.  The ledger st.session_state.budget_data outlives the    *)
(* script runs; it may not exist yet.  add_expense takes any amount and    *)
(* any category.                                                           *)
(***************************************************************************)
Amounts == {-500, 0, 1200, 2500}
Categories == {"Food", "Housing", "Other"}

\* position of a category in sorted (alphabetical) key order
CategoryRank == [Food |-> 1, Housing |-> 2, Other |-> 3]

\* datetime.now().strftime('%Y-%m-%d')
Today == "today"

AddExpense ==
    /\ pc = "idle"
    /\ Len(budget_data) < MaxExpenses
    /\ \E amount \in Amounts, category \in Categories :
         budget_data' = Append(IF has_budget_data THEN budget_data ELSE <<>>,
                               [date |-> Today, amount |-> amount, category |-> category,
                                description |-> ""])
    /\ has_budget_data' = TRUE
    /\ UNCHANGED <<pc, error, loanVars, breakdownVars, growthVars, summaryVars, adviceVars,
                   summary, analysis, calls>>

\* 'budget_data' in st.session_state and budget_data is not empty
LedgerIsEmptyKeyOnly(has, data) == ~has

\* 'budget_data' not in st.session_state or not st.session_state.budget_data
LedgerIsEmpty(has, data) == ~has \/ data = <<>>

\* df['amount'].sum()
RECURSIVE SumAmounts(_)
SumAmounts(data) ==
    IF data = <<>> THEN 0 ELSE data[1].amount + SumAmounts(Tail(data))

\* the rows of one category
RECURSIVE RowsOf(_, _)
RowsOf(data, category) ==
    IF data = <<>> THEN <<>>
    ELSE IF data[1].category = category
         THEN <<data[1]>> \o RowsOf(Tail(data), category)
         ELSE RowsOf(Tail(data), category)

\* keys of df.groupby('category')
CategoriesOf(data) == {data[i].category : i \in 1..Len(data)}

\* CategorySums that keeps the last amount of a category instead of adding
CategorySumsLastRow(data) ==
    [c \in CategoriesOf(data) |-> RowsOf(data, c)[Len(RowsOf(data, c))].amount]

\* df.groupby('category')['amount'].sum()
CategorySums(data) == [c \in CategoriesOf(data) |-> SumAmounts(RowsOf(data, c))]

\* get_budget_summary
GetBudgetSummary ==
    /\ pc = "idle"
    /\ IF LedgerIsEmpty(has_budget_data, budget_data)
       THEN /\ summary' = [total |-> 0, categories |-> NoCategories, count |-> 0]
            /\ error' = "none"
            /\ pc' = "summarized"
       ELSE IF budget_data = <<>>
            THEN \* a frame built from [] has no 'amount' column
                 /\ summary' = summary
                 /\ error' = "KeyError"
                 /\ pc' = "crashed"
            ELSE /\ summary' = [total |-> SumAmounts(budget_data),
                                categories |-> CategorySums(budget_data),
                                count |-> Len(budget_data)]
                 /\ error' = "none"
                 /\ pc' = "summarized"
    /\ UNCHANGED <<loanVars, breakdownVars, growthVars, summaryVars, adviceVars,
                   has_budget_data, budget_data, analysis, calls>>

\* (amount / total_spent) * 100 on numpy scalars: a zero divisor gives nan or
\* an infinity, not an exception; a percentage in units of 1/RateScale
Percentage(amount, total_spent) ==
    IF total_spent = 0
    THEN [kind |-> IF amount = 0 THEN "nan" ELSE IF amount > 0 THEN "inf" ELSE "-inf",
          value |-> 0]
    ELSE [kind |-> "number",
          value |-> IF total_spent > 0 THEN FDiv(amount, total_spent) * 100
                    ELSE FDiv(-amount, -total_spent) * 100]

\* the category that sort_values(ascending=False) puts first: the largest
\* sum, and among equal sums the first in key order
FirstRanked(sums, cats) ==
    CHOOSE c \in cats :
        \A d \in cats \ {c} :
            \/ sums[c] > sums[d]
            \/ sums[c] = sums[d] /\ CategoryRank[c] < CategoryRank[d]

\* category_spending: the categories in ranked order
RECURSIVE Ranked(_, _)
Ranked(sums, cats) ==
    IF cats = {} THEN <<>>
    ELSE LET c == FirstRanked(sums, cats)
         IN  <<c>> \o Ranked(sums, cats \ {c})

\* category_spending.head(5)
Head5(seq) == SubSeq(seq, 1, Min(Len(seq), TopCategories))

\* df['amount'].idxmax(): the first row holding the largest amount
IdxMax(data) ==
    CHOOSE i \in 1..Len(data) :
        /\ \A j \in 1..Len(data) : data[j].amount <= data[i].amount
        /\ \A j \in 1..(i - 1) : data[j].amount < data[i].amount

\* the figures _analyze_current_budget derives from a ledger that is not empty
AnalysisOf(data) ==
    LET total_spent == SumAmounts(data)
        sums == CategorySums(data)
        top == Head5(Ranked(sums, CategoriesOf(data)))
    IN  [total_spent |-> total_spent,
         rows |-> [i \in 1..Len(top) |->
                     [category |-> top[i], amount |-> sums[top[i]],
                      percentage |-> Percentage(sums[top[i]], total_spent)]],
         avg_daily |-> RoundDiv(total_spent, AssumedPeriodDays),
         highest |-> IdxMax(data),
         transactions |-> Len(data)]

\* _analyze_current_budget
AnalyzeCurrentBudget ==
    /\ pc = "idle"
    /\ IF LedgerIsEmpty(has_budget_data, budget_data)
       THEN analysis' = NoAnalysis
       ELSE analysis' = AnalysisOf(budget_data)
    /\ pc' = "analyzed"
    /\ UNCHANGED <<error, loanVars, breakdownVars, growthVars, summaryVars, adviceVars,
                   has_budget_data, budget_data, summary, calls>>

(***************************************************************************)
(* The next request starts from a fresh script run.                        *)
(***************************************************************************)
Rerun ==
    /\ pc \in {"loan_shown", "mortgage_shown", "amortized", "broken_down", "growth_shown", "charted",
               "recommended", "summarized", "analyzed", "crashed"}
    /\ pc' = "idle"
    /\ error' = "none"
    /\ loan_amount' = 0 /\ interest_rate' = 0 /\ loan_term' = 0 /\ monthly_payment' = 0
    /\ balance' = 0 /\ month' = 0 /\ schedule_data' = <<>>
    /\ principal_payments' = <<>> /\ interest_payments' = <<>> /\ remaining_balance' = <<>>
    /\ principal' = 0 /\ monthly_contribution' = 0 /\ annual_rate' = 0 /\ years' = 0
    /\ year' = 0 /\ years_data' = <<>> /\ principal_values' = <<>>
    /\ contribution_values' = <<>> /\ total_values' = <<>>
    /\ total_future_value' = 0 /\ total_contributions' = 0 /\ total_interest' = 0 /\ roi' = 0
    /\ risk_tolerance' = "moderate" /\ age' = 0 /\ base_allocation' = NoAllocation
    /\ expected_return' = 0
    /\ risk_table' = risk_profiles
    /\ summary' = NoSummary /\ analysis' = NoAnalysis
    /\ UNCHANGED <<has_budget_data, budget_data, calls>>

Next ==
    \/ LoanCalculator
    \/ MortgageCalculator
    \/ CreateAmortizationSchedule
    \/ AmortizationStep
    \/ CreateMortgageBreakdownChart
    \/ BreakdownStep
    \/ CompoundInterestCalculator
    \/ CreateCompoundInterestChart
    \/ ChartStep
    \/ GetPortfolioRecommendation
    \/ Rerun

Spec == Init /\ [][Next]_vars

(***************************************************************************)
(* Direct calls: _create_compound_interest_chart is an ordinary method and *)
(* checks none of its arguments, so a caller other than the widgets can    *)
(* pass any numbers.                                                       *)
(***************************************************************************)
AnyPrincipals == {-1000, 0, 1000}
AnyContributions == {-50, 0, 50}
AnyRates == {-12, 0, 12}
AnyYears == -1..MaxYears

DirectChartCall ==
    /\ pc = "idle"
    /\ \E p \in AnyPrincipals, c \in AnyContributions, ar \in AnyRates, y \in AnyYears :
         /\ principal' = p
         /\ monthly_contribution' = c
         /\ annual_rate' = ar
         /\ years' = y
         /\ pc' = IF 0 <= LastYear(y) THEN "charting" ELSE "charted"
    /\ year' = 0
    /\ years_data' = <<>>
    /\ principal_values' = <<>>
    /\ contribution_values' = <<>>
    /\ total_values' = <<>>
    /\ UNCHANGED <<error, loanVars, breakdownVars, adviceVars, summaryVars, budgetVars>>

\* _get_portfolio_recommendation with any profile dictionary: an unknown
\* risk_tolerance is no key of risk_profiles
AnyProfiles == RiskProfiles \cup {"speculative"}
AnyAges == {-5, 25, 60}

DirectRecommendationCall ==
    /\ pc = "idle"
    /\ \E rt \in AnyProfiles, a \in AnyAges :
         /\ risk_tolerance' = rt
         /\ age' = a
         /\ IF rt \in DOMAIN risk_table
            THEN /\ base_allocation' = PortfolioAllocation(rt, a)
                 /\ expected_return' = ExpectedReturn(PortfolioAllocation(rt, a))
                 /\ risk_table' = TableAfter(risk_table, rt, PortfolioAllocation(rt, a))
                 /\ error' = "none"
                 /\ pc' = "recommended"
            ELSE /\ base_allocation' = base_allocation
                 /\ expected_return' = expected_return
                 /\ risk_table' = risk_table
                 /\ error' = "KeyError"
                 /\ pc' = "crashed"
    /\ UNCHANGED <<loanVars, breakdownVars, growthVars, summaryVars, budgetVars>>

NextBudget ==
    \/ AddExpense
    \/ GetBudgetSummary
    \/ AnalyzeCurrentBudget
    \/ Rerun

SpecBudget == Init /\ [][NextBudget]_vars

NextDirect ==
    \/ DirectChartCall
    \/ DirectRecommendationCall
    \/ ChartStep
    \/ Rerun

SpecDirect == Init /\ [][NextDirect]_vars

(***************************************************************************)
(* Concurrent callers.  Nothing in BudgetTracker or InvestmentAdvisor       *)
(* takes a lock, so calls made at the same time on one tracker and one      *)
(* advisor interleave between their statements.  A caller makes one call.   *)
(***************************************************************************)
CalledAmounts == {1200, 2500}
CalledCategories == {"Food", "Housing"}
CalledAges == {25, 60}

\* the expense dictionary add_expense builds
ExpenseOf(call) ==
    [date |-> Today, amount |-> call.amount, category |-> call.category,
     description |-> ""]

\* add_expense(amount, category) is called
CallAddExpense(t) ==
    /\ calls[t].at = "ready"
    /\ \E amount \in CalledAmounts, category \in CalledCategories :
         calls' = [calls EXCEPT ![t] = [@ EXCEPT !.op = "add_expense", !.at = "check",
                                                !.amount = amount,
                                                !.category = category]]
    /\ UNCHANGED <<pc, error, loanVars, breakdownVars, growthVars, summaryVars, adviceVars,
                   has_budget_data, budget_data, summary, analysis>>

\* if 'budget_data' not in st.session_state
CheckLedger(t) ==
    /\ calls[t].at = "check"
    /\ calls' = [calls EXCEPT ![t].at = IF has_budget_data THEN "append" ELSE "create"]
    /\ UNCHANGED <<pc, error, loanVars, breakdownVars, growthVars, summaryVars, adviceVars,
                   has_budget_data, budget_data, summary, analysis>>

\* st.session_state.budget_data = []
CreateLedger(t) ==
    /\ calls[t].at = "create"
    /\ has_budget_data' = TRUE
    /\ budget_data' = <<>>
    /\ calls' = [calls EXCEPT ![t].at = "append"]
    /\ UNCHANGED <<pc, error, loanVars, breakdownVars, growthVars, summaryVars, adviceVars,
                   summary, analysis>>

\* st.session_state.budget_data.append(expense)
AppendExpense(t) ==
    /\ calls[t].at = "append"
    /\ budget_data' = Append(budget_data, ExpenseOf(calls[t]))
    /\ calls' = [calls EXCEPT ![t].at = "done"]
    /\ UNCHANGED <<pc, error, loanVars, breakdownVars, growthVars, summaryVars, adviceVars,
                   has_budget_data, summary, analysis>>

\* _get_portfolio_recommendation(user_profile) is called
CallRecommendation(t) ==
    /\ calls[t].at = "ready"
    /\ \E rt \in RiskProfiles, a \in CalledAges :
         calls' = [calls EXCEPT ![t] = [@ EXCEPT !.op = "recommend", !.at = "copy",
                                                !.risk_tolerance = rt, !.age = a]]
    /\ UNCHANGED <<pc, error, loanVars, breakdownVars, growthVars, summaryVars, adviceVars,
                   has_budget_data, budget_data, summary, analysis>>

\* base_allocation = self.risk_profiles[risk_tolerance].copy()
CopyProfile(t) ==
    /\ calls[t].at = "copy"
    /\ calls' = [calls EXCEPT ![t] = [@ EXCEPT !.allocation = risk_table[calls[t].risk_tolerance],
                                              !.at = "stocks"]]
    /\ UNCHANGED <<pc, error, loanVars, breakdownVars, growthVars, summaryVars, adviceVars,
                   has_budget_data, budget_data, summary, analysis>>

\* base_allocation['stocks'] = max(20, min(80, ...))
SetStocks(t) ==
    /\ calls[t].at = "stocks"
    /\ LET allocation ==
               [calls[t].allocation EXCEPT
                   !.stocks = AdjustedStocks(@, StockAdjustment(calls[t].age))]
       IN  /\ calls' = [calls EXCEPT ![t] = [@ EXCEPT !.allocation = allocation,
                                                     !.at = "bonds"]]
           /\ risk_table' = TableAfter(risk_table, calls[t].risk_tolerance, allocation)
    /\ UNCHANGED <<pc, error, loanVars, breakdownVars, growthVars, summaryVars,
                   risk_tolerance, age, base_allocation, expected_return,
                   has_budget_data, budget_data, summary, analysis>>

\* base_allocation['bonds'] = 100 - stocks - cash
SetBonds(t) ==
    /\ calls[t].at = "bonds"
    /\ LET allocation ==
               [calls[t].allocation EXCEPT
                   !.bonds = RemainingBonds(calls[t].allocation.stocks,
                                            calls[t].allocation.cash)]
       IN  /\ calls' = [calls EXCEPT ![t] = [@ EXCEPT !.allocation = allocation,
                                                     !.at = "done"]]
           /\ risk_table' = TableAfter(risk_table, calls[t].risk_tolerance, allocation)
    /\ UNCHANGED <<pc, error, loanVars, breakdownVars, growthVars, summaryVars,
                   risk_tolerance, age, base_allocation, expected_return,
                   has_budget_data, budget_data, summary, analysis>>

\* get_budget_summary() or _analyze_current_budget() is called
CallReport(t) ==
    /\ calls[t].at = "ready"
    /\ \E op \in {"get_budget_summary", "analyze"} :
         calls' = [calls EXCEPT ![t] = [@ EXCEPT !.op = op, !.at = "guard"]]
    /\ UNCHANGED <<pc, error, loanVars, breakdownVars, growthVars, summaryVars, adviceVars,
                   has_budget_data, budget_data, summary, analysis>>

\* the guard of either report: the ledger is missing or empty
ReportGuard(t) ==
    /\ calls[t].at = "guard"
    /\ calls' = [calls EXCEPT ![t].at =
                    IF LedgerIsEmpty(has_budget_data, budget_data) THEN "done" ELSE "frame"]
    /\ UNCHANGED <<pc, error, loanVars, breakdownVars, growthVars, summaryVars, adviceVars,
                   has_budget_data, budget_data, summary, analysis>>

\* df = pd.DataFrame(st.session_state.budget_data) and the figures from df
ReportFrame(t) ==
    /\ calls[t].at = "frame"
    /\ IF budget_data = <<>>
       THEN \* a frame built from [] has no 'amount' column
            calls' = [calls EXCEPT ![t] = [@ EXCEPT !.error = "KeyError", !.at = "done"]]
       ELSE IF calls[t].op = "get_budget_summary"
            THEN calls' = [calls EXCEPT ![t] =
                             [@ EXCEPT !.summary = [total |-> SumAmounts(budget_data),
                                                    categories |-> CategorySums(budget_data),
                                                    count |-> Len(budget_data)],
                                       !.at = "done"]]
            ELSE calls' = [calls EXCEPT ![t] =
                             [@ EXCEPT !.analysis = AnalysisOf(budget_data),
                                       !.at = "done"]]
    /\ UNCHANGED <<pc, error, loanVars, breakdownVars, growthVars, summaryVars, adviceVars,
                   has_budget_data, budget_data, summary, analysis>>

NextShared ==
    \/ \E t \in Threads : CallAddExpense(t)
    \/ \E t \in Threads : CheckLedger(t)
    \/ \E t \in Threads : CreateLedger(t)
    \/ \E t \in Threads : AppendExpense(t)
    \/ \E t \in Threads : CallRecommendation(t)
    \/ \E t \in Threads : CopyProfile(t)
    \/ \E t \in Threads : SetStocks(t)
    \/ \E t \in Threads : SetBonds(t)
    \/ \E t \in Threads : CallReport(t)
    \/ \E t \in Threads : ReportGuard(t)
    \/ \E t \in Threads : ReportFrame(t)

SpecShared == Init /\ [][NextShared]_vars

(***************************************************************************)
(* Properties.                                                             *)
(***************************************************************************)
TotalPayments == loan_term * MonthsPerYear

\* balance the i-th record's payment is applied to
BalanceBefore(i) == IF i = 1 THEN loan_amount ELSE schedule_data[i - 1].Balance

RECURSIVE SumPrincipal(_)
SumPrincipal(n) == IF n = 0 THEN 0 ELSE SumPrincipal(n - 1) + schedule_data[n].Principal

\* C1: when the schedule of a loan with loan_amount > 0 is complete, its
\* principal portions add up to loan_amount.  (The tolerance of 1e-6 is below
\* one cent, so at the model's resolution it is equality.)
C1_PrincipalSumsToLoan ==
    (pc = "amortized" /\ loan_amount > 0)
        => SumPrincipal(Len(schedule_data)) = loan_amount

\* C2: after every record the remaining balance is not negative, the
\* principal portion does not exceed the balance it is applied to, and where
\* that balance is positive the principal portion is positive and the balance
\* after the record is strictly smaller.
C2_BalanceDecreases ==
    \A i \in 1..Len(schedule_data) :
        /\ schedule_data[i].Balance >= 0
        /\ schedule_data[i].Principal <= BalanceBefore(i)
        /\ BalanceBefore(i) > 0 =>
              /\ schedule_data[i].Principal > 0
              /\ schedule_data[i].Balance < BalanceBefore(i)

\* a complete schedule of several records whose last principal portion was
\* clamped to the balance
C2_Witness ==
    /\ pc = "amortized"
    /\ Len(schedule_data) >= MonthsPerYear
    /\ schedule_data[Len(schedule_data)].Payment < schedule_data[1].Payment
    /\ schedule_data[Len(schedule_data)].Balance = 0

\* C3: a complete schedule has at most N = loan_term * 12 records, its last
\* record has remaining balance 0, and no record follows a record whose
\* remaining balance is <= 0.
C3_ScheduleEndsAtZero ==
    pc = "amortized" =>
        /\ Len(schedule_data) <= TotalPayments
        /\ Len(schedule_data) >= 1
        /\ schedule_data[Len(schedule_data)].Balance = 0
        /\ \A i \in 1..(Len(schedule_data) - 1) : schedule_data[i].Balance > 0

\* C4: the recommended allocation sums to 100 and its stock share lies in
\* [20, 80].
C4_AllocationSumsTo100 ==
    pc = "recommended" =>
        /\ base_allocation.stocks + base_allocation.bonds + base_allocation.cash = 100
        /\ 20 <= base_allocation.stocks
        /\ base_allocation.stocks <= 80

\* a recommendation whose stock share was raised by the age adjustment
C4_Witness ==
    /\ pc = "recommended"
    /\ risk_tolerance = "aggressive"
    /\ age < 30
    /\ base_allocation.stocks = 80

\* C5: at every point of the series, period 0 included, the total is the sum
\* of the principal value and the contribution value.
C5_TotalIsSum ==
    pc \in {"charting", "charted"} =>
        \A i \in 1..Len(total_values) :
            total_values[i] = principal_values[i] + contribution_values[i]

\* a series with a later point whose contribution value is positive
C5_Witness ==
    /\ pc = "charted"
    /\ Len(total_values) >= 3
    /\ contribution_values[Len(total_values)] > 0
    /\ principal_values[Len(total_values)] > principal

\* C6: the three series never decrease from one period to the next and hold
\* no negative value.
C6_SeriesMonotone ==
    pc \in {"charting", "charted"} =>
        /\ \A i \in 1..Len(total_values) :
              /\ principal_values[i] >= 0
              /\ contribution_values[i] >= 0
              /\ total_values[i] >= 0
        /\ \A i \in 1..(Len(total_values) - 1) :
              /\ principal_values[i] <= principal_values[i + 1]
              /\ contribution_values[i] <= contribution_values[i + 1]
              /\ total_values[i] <= total_values[i + 1]

\* a complete series at a positive rate that grew in both components
C6_Witness ==
    /\ pc = "charted"
    /\ annual_rate > 0
    /\ Len(total_values) >= 3
    /\ principal_values[1] < principal_values[2]
    /\ contribution_values[2] < contribution_values[3]

\* C7: the complete series has years + 1 points, for the periods 0..years in
\* order, and its first point holds the principal and a contribution value
\* of 0.
C7_SeriesLength ==
    pc = "charted" =>
        /\ Len(years_data) = years + 1
        /\ Len(principal_values) = years + 1
        /\ Len(contribution_values) = years + 1
        /\ Len(total_values) = years + 1
        /\ \A i \in 1..Len(years_data) : years_data[i] = i - 1
        /\ principal_values[1] = principal
        /\ contribution_values[1] = 0

\* a complete series of more than two points
C7_Witness ==
    /\ pc = "charted"
    /\ years >= 2
    /\ principal > 0
    /\ Len(years_data) = years + 1

\* C8: with no contribution and a rate of 0 the total is the principal at
\* every period.
C8_ZeroRateKeepsPrincipal ==
    (pc \in {"charting", "charted"} /\ monthly_contribution = 0 /\ annual_rate = 0)
        => \A i \in 1..Len(total_values) : total_values[i] = principal

\* a complete zero-rate, zero-contribution series of a positive principal
C8_Witness ==
    /\ pc = "charted"
    /\ monthly_contribution = 0
    /\ annual_rate = 0
    /\ principal > 0
    /\ Len(total_values) >= 3

\* C9: building the schedule of a loan with loan_amount <= 0 fails with
\* InvalidInput and emits no record.
C9_InvalidLoanRejected ==
    (pc \in {"amortizing", "amortized", "breaking_down", "broken_down"} /\ loan_amount <= 0)
        => /\ error = "InvalidInput"
           /\ schedule_data = <<>>
           /\ remaining_balance = <<>>

\* C10: the projection of an input with principal < 0, contribution < 0,
\* rate < 0 or years < 1 fails with InvalidInput and produces no point.
C10_InvalidGrowthRejected ==
    (/\ pc \in {"charting", "charted"}
     /\ (principal < 0 \/ monthly_contribution < 0 \/ annual_rate < 0 \/ years < 1))
        => /\ error = "InvalidInput"
           /\ total_values = <<>>

\* C11: a recommendation asked for an age < 0 or for a profile other than
\* the three fails (InvalidInput) and returns no allocation.
C11_InvalidProfileRejected ==
    (/\ pc \in {"recommended", "crashed"}
     /\ (age < 0 \/ risk_tolerance \notin RiskProfiles))
        => /\ error # "none"
           /\ base_allocation = NoAllocation

\* C12: the summary of a ledger that holds a negative amount fails
\* (InvalidInput); the negative amount is not summed.
C12_NegativeAmountRejected ==
    (/\ pc \in {"summarized", "crashed"}
     /\ \E i \in 1..Len(budget_data) : budget_data[i].amount < 0)
        => /\ error # "none"
           /\ summary = NoSummary

\* C13: the growth summary reports a return on investment of 0, with no
\* division error, when total_contributions is 0.
C13_ZeroContributionsRoi ==
    (/\ pc \in {"growth_shown", "crashed"}
     /\ years >= 1
     /\ total_contributions = 0)
        => /\ error = "none"
           /\ roi = 0

\* C14: with the ledger absent or empty the summary is total 0, no
\* categories and count 0, and no error is raised.
C14_EmptyLedgerSummary ==
    (/\ pc \in {"summarized", "crashed"}
     /\ (~has_budget_data \/ budget_data = <<>>))
        => /\ error = "none"
           /\ pc = "summarized"
           /\ summary.total = 0
           /\ DOMAIN summary.categories = {}
           /\ summary.count = 0

\* a summary taken while the ledger exists and is empty
C14_Witness ==
    /\ pc = "summarized"
    /\ has_budget_data
    /\ budget_data = <<>>

\* C15: the summary's final value is the total of the last point of the
\* series of the same input, total_contributions is principal +
\* contribution * years * 12, and total_interest is their difference.
C15_SummaryMatchesSeries ==
    pc = "charted" =>
        /\ total_future_value = total_values[Len(total_values)]
        /\ total_contributions = principal + monthly_contribution * years * 12
        /\ total_interest = total_future_value - total_contributions

\* a complete series with growing principal and contributions
C15_Witness ==
    /\ pc = "charted"
    /\ annual_rate > 0
    /\ principal > 0
    /\ monthly_contribution > 0
    /\ total_interest > 0

\* C16 as stated: in the scenario (10000, 500 a month, 7 %, 20 years) the
\* final value is 245,830 to within one percent and the contributions are
\* 130,000; amounts in units of ten dollars.
C16_ScenarioAsStated ==
    (/\ pc \in {"growth_shown", "charting", "charted"}
     /\ <<principal, monthly_contribution, annual_rate, years>> = ScenarioGrowth) =>
        /\ 100 * (total_future_value - 24583) <= 24583
        /\ 100 * (24583 - total_future_value) <= 24583
        /\ total_contributions = 13000

\* C16 amended: in the scenario the final value is 300,851 to within one
\* percent and the contributions are 130,000.
C16_ScenarioFinalValue ==
    (/\ pc \in {"growth_shown", "charting", "charted"}
     /\ <<principal, monthly_contribution, annual_rate, years>> = ScenarioGrowth) =>
        /\ 100 * (total_future_value - 30085) <= 30085
        /\ 100 * (30085 - total_future_value) <= 30085
        /\ total_contributions = 13000

\* the scenario's series is complete
C16_Witness ==
    /\ pc = "charted"
    /\ <<principal, monthly_contribution, annual_rate, years>> = ScenarioGrowth
    /\ Len(total_values) = 21

\* C18: aggressive at age 25 gives 80 / 10 / 10 and conservative at age 60
\* gives 20 / 70 / 10.
C18_ScenarioAllocations ==
    pc = "recommended" =>
        /\ (risk_tolerance = "aggressive" /\ age = 25)
              => base_allocation = [stocks |-> 80, bonds |-> 10, cash |-> 10]
        /\ (risk_tolerance = "conservative" /\ age = 60)
              => base_allocation = [stocks |-> 20, bonds |-> 70, cash |-> 10]

\* the recommendation for conservative at age 60
C18_Witness ==
    /\ pc = "recommended"
    /\ risk_tolerance = "conservative"
    /\ age = 60
    /\ base_allocation.bonds = 70

\* C19: the expected return of a recommended allocation lies between the
\* cash return (2.0 %) and the stock return (8.5 %).
C19_ReturnWithinAssetReturns ==
    pc = "recommended" =>
        /\ 200 <= expected_return
        /\ expected_return <= 850

\* the recommendation with the largest stock share
C19_Witness ==
    /\ pc = "recommended"
    /\ base_allocation.stocks = 80
    /\ expected_return = 740

\* C20: the analysis of a ledger that is not empty and whose amounts are all
\* 0 reports every percentage as 0.
C20_ZeroTotalPercentages ==
    (/\ pc = "analyzed"
     /\ has_budget_data
     /\ budget_data # <<>>
     /\ \A i \in 1..Len(budget_data) : budget_data[i].amount = 0)
        => \A i \in 1..Len(analysis.rows) :
               analysis.rows[i].percentage = [kind |-> "number", value |-> 0]

\* C21: the analysis lists the categories by descending sum, and categories
\* with equal sums in the order in which they were first encountered in the
\* ledger (stated for ledgers of positive amounts).
C21_RankedByFirstEncounter ==
    (/\ pc = "analyzed"
     /\ ~LedgerIsEmpty(has_budget_data, budget_data)
     /\ \A k \in 1..Len(budget_data) : budget_data[k].amount > 0) =>
        LET firstSeen(c) == CHOOSE i \in 1..Len(budget_data) :
                               /\ budget_data[i].category = c
                               /\ \A j \in 1..(i - 1) : budget_data[j].category # c
            rows == analysis.rows
        IN  \A i, j \in 1..Len(rows) :
               i < j =>
                  \/ rows[i].amount > rows[j].amount
                  \/ /\ rows[i].amount = rows[j].amount
                     /\ firstSeen(rows[i].category) < firstSeen(rows[j].category)

\* C22: the annual rollup of a mortgage yields triples only for the years
\* 1..loan_term, at most one per year.
C22_RollupYears ==
    (pc = "broken_down" /\ loan_amount > 0) =>
        /\ Len(years_data) <= loan_term
        /\ \A i \in 1..Len(years_data) : years_data[i] \in 1..loan_term
        /\ \A i, j \in 1..Len(years_data) : i # j => years_data[i] # years_data[j]

\* C23: the records of a schedule carry the period indices 1, 2, ..., k in
\* the order of emission, and the points of a growth series are emitted in
\* strictly increasing year order.
C23_EmittedInOrder ==
    /\ pc \in {"amortizing", "amortized"} =>
          \A i \in 1..Len(schedule_data) : schedule_data[i].Month = i
    /\ pc \in {"charting", "charted"} =>
          \A i \in 1..(Len(years_data) - 1) : years_data[i] < years_data[i + 1]

\* a complete schedule of more than one year
C23_Witness ==
    /\ pc = "amortized"
    /\ Len(schedule_data) > MonthsPerYear

\* C27: every record's payment is its principal plus its interest, the
\* interest being the previous balance times the monthly rate; a record
\* whose regular principal would exceed the previous balance pays that
\* balance, has its payment recomputed, and is the last of the schedule.
C27_PaymentSplits ==
    pc \in {"amortizing", "amortized"} =>
        LET regular == MonthlyPayment(loan_amount, MonthlyRate(interest_rate), TotalPayments)
        IN  \A i \in 1..Len(schedule_data) :
               LET rec == schedule_data[i]
                   before == BalanceBefore(i)
               IN  /\ rec.Payment = rec.Principal + rec.Interest
                   /\ rec.Interest = MMul(before, MonthlyRate(interest_rate))
                   /\ IF regular - rec.Interest > before
                      THEN /\ rec.Principal = before
                           /\ i = Len(schedule_data)
                           /\ pc = "amortized"
                      ELSE rec.Payment = regular

\* a schedule whose last record was clamped to the balance
C27_Witness ==
    /\ pc = "amortized"
    /\ Len(schedule_data) > 1
    /\ schedule_data[Len(schedule_data)].Payment < schedule_data[1].Payment
    /\ schedule_data[Len(schedule_data)].Principal > 0
    /\ schedule_data[Len(schedule_data)].Balance = 0

\* C28: the recommended stock share exceeds the profile's base share by 10
\* for age < 30, by 0 for 30 <= age < 50 and by -10 for age >= 50; ages 29,
\* 30, 49 and 50 get +10, 0, 0 and -10.
C28_AgeBrackets ==
    pc = "recommended" =>
        LET added == base_allocation.stocks - risk_profiles[risk_tolerance].stocks
        IN  /\ age < 30 => added = 10
            /\ (30 <= age /\ age < 50) => added = 0
            /\ age >= 50 => added = -10
            /\ age = 29 => added = 10
            /\ age \in {30, 49} => added = 0
            /\ age = 50 => added = -10

\* a recommendation at the first age of the last bracket
C28_Witness ==
    /\ pc = "recommended"
    /\ age = 50
    /\ risk_tolerance = "aggressive"
    /\ base_allocation.stocks = 60

\* C29: the recommended cash share is the profile's (10), bonds is
\* 100 - stocks - cash and lies in [10, 70], and the age-adjusted stock share
\* of every profile is already within [20, 80], so the clamp leaves it as it is.
C29_CashFixedClampIdle ==
    pc = "recommended" =>
        LET base == risk_profiles[risk_tolerance]
            adjusted == base.stocks + StockAdjustment(age)
        IN  /\ base_allocation.cash = base.cash
            /\ base_allocation.cash = 10
            /\ base_allocation.bonds = 100 - base_allocation.stocks - base_allocation.cash
            /\ 10 <= base_allocation.bonds
            /\ base_allocation.bonds <= 70
            /\ MinStocks <= adjusted
            /\ adjusted <= MaxStocks
            /\ base_allocation.stocks = adjusted

\* the recommendation with the largest bonds share
C29_Witness ==
    /\ pc = "recommended"
    /\ risk_tolerance = "conservative"
    /\ age >= 50
    /\ base_allocation.bonds = 70
    /\ base_allocation.stocks = MinStocks

\* C30: every change of the ledger appends one transaction at its end and
\* leaves the earlier ones as they were; a summary of the ledger reports its
\* length as count, the sum of its amounts as total, exactly its categories
\* as keys, each with the sum of that category's amounts, and the category
\* sums add up to total.
C30_LedgerAppendsAndSummary ==
    /\ [][budget_data' # budget_data =>
            /\ Len(budget_data') = Len(budget_data) + 1
            /\ SubSeq(budget_data', 1, Len(budget_data)) = budget_data]_vars
    /\ [](  (pc = "summarized" /\ has_budget_data /\ budget_data # <<>>) =>
              LET n == Len(budget_data)
                  upTo[k \in 0..n] ==
                      IF k = 0 THEN 0 ELSE upTo[k - 1] + budget_data[k].amount
                  ofCategory[c \in Categories] ==
                      [k \in 0..n |->
                          IF k = 0 THEN 0
                          ELSE IF budget_data[k].category = c
                               THEN budget_data[k].amount ELSE 0]
                  catUpTo[c \in Categories] ==
                      LET acc[k \in 0..n] ==
                              IF k = 0 THEN 0 ELSE acc[k - 1] + ofCategory[c][k]
                      IN  acc[n]
                  keys == DOMAIN summary.categories
                  keySum[K \in SUBSET Categories] ==
                      IF K = {} THEN 0
                      ELSE LET c == CHOOSE x \in K : TRUE
                           IN  summary.categories[c] + keySum[K \ {c}]
              IN  /\ summary.count = n
                  /\ summary.total = upTo[n]
                  /\ keys = {budget_data[k].category : k \in 1..n}
                  /\ \A c \in keys : summary.categories[c] = catUpTo[c]
                  /\ keySum[keys] = summary.total  )

\* a summary of three expenses, two of them of one category
C30_Witness ==
    /\ pc = "summarized"
    /\ summary.count = 3
    /\ Cardinality(DOMAIN summary.categories) = 2
    /\ summary.total = 4900

\* C24: when all concurrent calls have returned, the outcome is one a
\* sequential order gives: every expense added is in the ledger, the ledger
\* holds nothing else, every recommendation is the one its input gets alone,
\* and no call has failed.
C24_ConcurrentCallsSerialize ==
    (\A t \in Threads : calls[t].at = "done") =>
        LET adders == {t \in Threads : calls[t].op = "add_expense"}
        IN  /\ Len(budget_data) = Cardinality(adders)
            /\ \A t \in adders :
                  \E i \in 1..Len(budget_data) : budget_data[i] = ExpenseOf(calls[t])
            /\ \A t \in Threads :
                  calls[t].op = "recommend" =>
                     calls[t].allocation =
                         PortfolioAllocation(calls[t].risk_tolerance, calls[t].age)
            /\ \A t \in Threads : calls[t].error = "none"

\* C25: a step of a summary, of an analysis or of a recommendation leaves
\* the ledger and the table of risk profiles as they were; the table always
\* holds the base allocations, and two recommendations for the same input
\* are the same.
C25_ReportsLeaveStateAlone ==
    /\ [][\A t \in Threads :
             (/\ calls[t].op \in {"get_budget_summary", "analyze", "recommend"}
              /\ calls'[t] # calls[t])
                => /\ budget_data' = budget_data
                   /\ has_budget_data' = has_budget_data
                   /\ risk_table' = risk_table]_vars
    /\ [](risk_table = risk_profiles)
    /\ [](\A t, u \in Threads :
              (/\ calls[t].op = "recommend" /\ calls[t].at = "done"
               /\ calls[u].op = "recommend" /\ calls[u].at = "done"
               /\ calls[t].risk_tolerance = calls[u].risk_tolerance
               /\ calls[t].age = calls[u].age)
                 => calls[t].allocation = calls[u].allocation)

\* a summary of a ledger that holds an expense and two recommendations for
\* one input have returned
C25_Witness ==
    /\ calls["first"].op = "add_expense" /\ calls["first"].at = "done"
    /\ calls["second"].op = "get_budget_summary" /\ calls["second"].at = "done"
    /\ calls["second"].summary.count = 1
    /\ calls["third"].op = "recommend" /\ calls["third"].at = "done"
    /\ calls["third"].allocation.stocks = 80
    /\ budget_data = <<ExpenseOf(calls["first"])>>

=============================================================================
